---- MODULE Spec2Model ----
(***************************************************************************)
(* Record indexing and lookup engine: the Sorted Index (id_query_binsort:  *)
(* mk_indexed / lookup_indexed / free_indexed) and the Coordinate Scanner  *)
(* (coord_query_naive.c: mk_naive / lookup_naive / free_naive), each       *)
(* driven as build, lookup*, destroy over an immutable Record Store.       *)
(*                                                                         *)
(* Record references (pointers to struct record) are 0-based positions in  *)
(* the store array rs, as in &rs[i]; sequences here are 1-based, so record *)
(* reference i denotes rs[i + 1].                                          *)
(*                                                                         *)
(* Coordinates are small integers: every value and every intermediate      *)
(* result of the distance computation is then exactly representable in a   *)
(* double, so the arithmetic of lookup_naive is exact on them.             *)
(***************************************************************************)
EXTENDS Integers, Sequences, FiniteSets, TLC

\* ------------------------------------------------------------------ bounds
MaxN == 3          \* longest record store
MaxId == 3         \* identifiers are 1..MaxId; needles are 0..MaxId+1
MaxCoord == 1      \* coordinates of records and queries are 0..MaxCoord
IntWidth == 3      \* bits of the modelled int; MaxN <= INT_MAX

\* ------------------------------------------------------- program constants
NULL == -1                 \* the null record reference
NThreads == 1              \* the drivers are single-threaded
SizeofIndexRecord == 16    \* sizeof(struct index_record)
SizeofIndexedData == 16    \* sizeof(struct indexed_data)
SizeofNaiveData == 16      \* sizeof(struct naive_data)

INT_MAX == 2 ^ (IntWidth - 1) - 1
INT_MIN == -(2 ^ (IntWidth - 1))

\* The value an int holds after a computation whose exact result is x.
int(x) == ((x - INT_MIN) % (2 ^ IntWidth)) + INT_MIN

\* The exact result x of an int computation is not representable.
overflows(x) == x < INT_MIN \/ x > INT_MAX

\* x / 2 on int: the quotient truncated toward zero.
div2(x) == IF x >= 0 THEN x \div 2 ELSE -((-x) \div 2)

Threads == 1..NThreads
Ids == 1..MaxId
Needles == 0..(MaxId + 1)
Coords == 0..MaxCoord
Blocks == {"records", "data", "irs"}

VARIABLES
  prog,        \* which program runs: "binsort" or "coord"
  rs,          \* the Record Store: sequence of [osm_id, lon, lat]
  heap,        \* per block: [st: "unallocated" | "live" | "freed", frees: Nat]
  handle,      \* what mk_* returned: "NULL" or "data"
  irs,         \* data->irs: sequence of [osm_id, record]
  data_n,      \* data->n
  phase,       \* driver position: "start", "built", "failed", "destroyed"
  exhausted,   \* some malloc of the build failed for lack of memory
  frame        \* per thread: the locals of the lookup call it runs

vars == <<prog, rs, heap, handle, irs, data_n, phase, exhausted, frame>>

\* --------------------------------------------------------------- the heap
malloc_block(h, b) == [h EXCEPT ![b] = [st |-> "live", frees |-> @.frees]]

free_block(h, b) == [h EXCEPT ![b] = [st |-> "freed", frees |-> @.frees + 1]]

\* malloc(size): a block, or a null pointer because memory is exhausted, or,
\* for size 0 only, a null pointer by the implementation's choice.
malloc(size) ==
  {"block", "ENOMEM"} \cup (IF size = 0 THEN {"null0"} ELSE {})

\* ------------------------------------------------------ Sorted Index: build
compare_index_records_reversed(ia, ib) ==
  IF ia.osm_id < ib.osm_id THEN 1
  ELSE IF ia.osm_id > ib.osm_id THEN -1
  ELSE 0

compare_index_records(ia, ib) ==
  IF ia.osm_id < ib.osm_id THEN -1
  ELSE IF ia.osm_id > ib.osm_id THEN 1
  ELSE 0

Permutations1(n) ==
  {p \in [1..n -> 1..n] : \A i, j \in 1..n : p[i] = p[j] => i = j}

qsort_skipped(base) == {base}

\* A sort that moves the keys alone and leaves each reference in place.
qsort_keys_only(base) ==
  {[i \in 1..Len(base) |->
      [osm_id |-> base[p[i]].osm_id, record |-> base[i].record]] :
     p \in {q \in Permutations1(Len(base)) :
              \A i, j \in 1..Len(base) :
                 i < j => compare_index_records(base[q[i]], base[q[j]]) <= 0}}

\* qsort(data->irs, n, sizeof(struct index_record), compare_index_records):
\* the array is left in some order that is a permutation of base and is
\* ascending by the comparison; the order of elements that compare equal is
\* unspecified.
qsort(base) ==
  {[i \in 1..Len(base) |-> base[p[i]]] :
     p \in {q \in Permutations1(Len(base)) :
              \A i, j \in 1..Len(base) :
                 i < j => compare_index_records(base[q[i]], base[q[j]]) <= 0}}

build_index_key_is_position(records) ==
  [i \in 1..Len(records) |-> [osm_id |-> i - 1, record |-> i - 1]]

build_index(records) ==
  [i \in 1..Len(records) |-> [osm_id |-> records[i].osm_id, record |-> i - 1]]

mk_indexed_rollback_missing(h) == h

mk_indexed_rollback(h) == free_block(h, "data")

mk_indexed ==
  /\ prog = "binsort"
  /\ phase = "start"
  /\ LET n == Len(rs) IN
     \E pdata \in malloc(SizeofIndexedData), pirs \in malloc(n * SizeofIndexRecord) :
       IF pdata # "block"
       THEN /\ handle' = "NULL"
            /\ phase' = "failed"
            /\ exhausted' = TRUE
            /\ UNCHANGED <<heap, irs, data_n>>
       ELSE IF pirs # "block"
       THEN /\ heap' = mk_indexed_rollback(malloc_block(heap, "data"))
            /\ handle' = "NULL"
            /\ phase' = "failed"
            /\ exhausted' = (pirs = "ENOMEM")
            /\ UNCHANGED <<irs, data_n>>
       ELSE /\ heap' = malloc_block(malloc_block(heap, "data"), "irs")
            /\ irs' \in qsort(build_index(rs))
            /\ data_n' = n
            /\ handle' = "data"
            /\ phase' = "built"
            /\ UNCHANGED exhausted
  /\ UNCHANGED <<prog, rs, frame>>

\* ---------------------------------------------------- Sorted Index: lookup
IdleFrame ==
  [pc |-> "idle", needle |-> 0, left |-> 0, right |-> 0,
   lon |-> 0, lat |-> 0, i |-> 0, closest |-> NULL, min_dist_sq |-> 0,
   result |-> NULL, reads |-> {}, ovf |-> FALSE]

\* int left = 0; int right = data->n - 1.  ovf records that some int
\* computation of the call had an exact result outside the range of int.
lookup_indexed_entry(needle) ==
  [IdleFrame EXCEPT !.pc = "while", !.needle = needle,
                    !.left = 0, !.right = int(data_n - 1),
                    !.ovf = overflows(data_n - 1)]

\* mid = (left + right) / 2
midpoint_of_sum(left, right) ==
  [val |-> div2(int(left + right)), ovf |-> overflows(left + right)]

\* mid = left + (right - left) / 2
midpoint(left, right) ==
  [val |-> int(left + div2(int(right - left))),
   ovf |-> overflows(right - left)
             \/ overflows(left + div2(int(right - left)))]

\* The loop pass with mid = (left + right) / 2; an entry read outside the
\* array yields an arbitrary key, here one below every needle.
lookup_indexed_iter_sum_mid(f) ==
  IF f.left <= f.right
  THEN LET m == midpoint_of_sum(f.left, f.right)
           mid == m.val
           e == IF mid + 1 \in DOMAIN irs THEN irs[mid + 1]
                ELSE [osm_id |-> -1, record |-> NULL]
       IN IF e.osm_id = f.needle
          THEN [f EXCEPT !.pc = "returned", !.result = e.record,
                         !.reads = @ \cup {mid}, !.ovf = @ \/ m.ovf]
          ELSE IF e.osm_id < f.needle
          THEN [f EXCEPT !.left = int(mid + 1), !.reads = @ \cup {mid},
                         !.ovf = @ \/ m.ovf \/ overflows(mid + 1)]
          ELSE [f EXCEPT !.right = int(mid - 1), !.reads = @ \cup {mid},
                         !.ovf = @ \/ m.ovf \/ overflows(mid - 1)]
  ELSE [f EXCEPT !.pc = "returned", !.result = NULL]

lookup_indexed_iter_strict(f) ==
  IF f.left < f.right
  THEN LET mid == f.left + ((f.right - f.left) \div 2)
           e == irs[mid + 1]
       IN IF e.osm_id = f.needle
          THEN [f EXCEPT !.pc = "returned", !.result = e.record,
                         !.reads = @ \cup {mid}]
          ELSE IF e.osm_id < f.needle
          THEN [f EXCEPT !.left = mid + 1, !.reads = @ \cup {mid}]
          ELSE [f EXCEPT !.right = mid - 1, !.reads = @ \cup {mid}]
  ELSE [f EXCEPT !.pc = "returned", !.result = NULL]

lookup_indexed_iter_left_mid(f) ==
  IF f.left <= f.right
  THEN LET mid == f.left + ((f.right - f.left) \div 2)
           e == irs[mid + 1]
       IN IF e.osm_id = f.needle
          THEN [f EXCEPT !.pc = "returned", !.result = e.record,
                         !.reads = @ \cup {mid}]
          ELSE IF e.osm_id < f.needle
          THEN [f EXCEPT !.left = mid, !.reads = @ \cup {mid}]
          ELSE [f EXCEPT !.right = mid - 1, !.reads = @ \cup {mid}]
  ELSE [f EXCEPT !.pc = "returned", !.result = NULL]

lookup_indexed_iter_swapped(f) ==
  IF f.left <= f.right
  THEN LET mid == f.left + ((f.right - f.left) \div 2)
           e == irs[mid + 1]
       IN IF e.osm_id = f.needle
          THEN [f EXCEPT !.pc = "returned", !.result = e.record,
                         !.reads = @ \cup {mid}]
          ELSE IF e.osm_id < f.needle
          THEN [f EXCEPT !.right = mid - 1, !.reads = @ \cup {mid}]
          ELSE [f EXCEPT !.left = mid + 1, !.reads = @ \cup {mid}]
  ELSE [f EXCEPT !.pc = "returned", !.result = NULL]

\* A leftmost-match search: a hit is remembered and the search goes on in
\* the left half; the remembered record is returned when the range empties.
lookup_indexed_iter_leftmost(f) ==
  IF f.left <= f.right
  THEN LET mid == f.left + ((f.right - f.left) \div 2)
           e == irs[mid + 1]
       IN IF e.osm_id = f.needle
          THEN [f EXCEPT !.closest = e.record, !.right = mid - 1,
                         !.reads = @ \cup {mid}]
          ELSE IF e.osm_id < f.needle
          THEN [f EXCEPT !.left = mid + 1, !.reads = @ \cup {mid}]
          ELSE [f EXCEPT !.right = mid - 1, !.reads = @ \cup {mid}]
  ELSE [f EXCEPT !.pc = "returned", !.result = f.closest]

\* One pass through the while loop of lookup_indexed: the test of the loop
\* condition and, when it holds, the body; when it fails, the return NULL.
lookup_indexed_iter(f) ==
  IF f.left <= f.right
  THEN LET m == midpoint(f.left, f.right)
           mid == m.val
           e == irs[mid + 1]
       IN IF e.osm_id = f.needle
          THEN [f EXCEPT !.pc = "returned", !.result = e.record,
                         !.reads = @ \cup {mid}, !.ovf = @ \/ m.ovf]
          ELSE IF e.osm_id < f.needle
          THEN [f EXCEPT !.left = int(mid + 1), !.reads = @ \cup {mid},
                         !.ovf = @ \/ m.ovf \/ overflows(mid + 1)]
          ELSE [f EXCEPT !.right = int(mid - 1), !.reads = @ \cup {mid},
                         !.ovf = @ \/ m.ovf \/ overflows(mid - 1)]
  ELSE [f EXCEPT !.pc = "returned", !.result = NULL]

lookup_indexed_call(t) ==
  /\ prog \in {"binsort", "shared"}
  /\ phase = "built"
  /\ frame[t].pc \in {"idle", "returned"}
  /\ \E needle \in Needles :
       frame' = [frame EXCEPT ![t] = lookup_indexed_entry(needle)]
  /\ UNCHANGED <<prog, rs, heap, handle, irs, data_n, phase, exhausted>>

\* A self-organising variant: a hit swaps the found entry to the front.
lookup_indexed_step_move_to_front(t) ==
  /\ prog \in {"binsort", "shared"}
  /\ frame[t].pc = "while"
  /\ frame' = [frame EXCEPT ![t] = lookup_indexed_iter(frame[t])]
  /\ irs' = LET g == lookup_indexed_iter(frame[t])
            IN IF g.pc = "returned" /\ g.result # NULL
               THEN LET m == CHOOSE i \in 1..Len(irs) : irs[i].record = g.result
                    IN [irs EXCEPT ![1] = irs[m], ![m] = irs[1]]
               ELSE irs
  /\ UNCHANGED <<prog, rs, heap, handle, data_n, phase, exhausted>>

\* left and right declared static: one pair shared by every running call.
lookup_indexed_step_static(t) ==
  /\ prog \in {"binsort", "shared"}
  /\ frame[t].pc = "while"
  /\ frame' = LET g == lookup_indexed_iter(frame[t])
              IN [u \in DOMAIN frame |->
                    IF u = t THEN g
                    ELSE IF frame[u].pc = "while"
                    THEN [frame[u] EXCEPT !.left = g.left, !.right = g.right]
                    ELSE frame[u]]
  /\ UNCHANGED <<prog, rs, heap, handle, irs, data_n, phase, exhausted>>

lookup_indexed_step(t) ==
  /\ prog \in {"binsort", "shared"}
  /\ frame[t].pc = "while"
  /\ frame' = [frame EXCEPT ![t] = lookup_indexed_iter(frame[t])]
  /\ UNCHANGED <<prog, rs, heap, handle, irs, data_n, phase, exhausted>>

\* --------------------------------------------------- Sorted Index: destroy
free_indexed_leaks_irs(h) == free_block(h, "data")

free_indexed_heap(h) == free_block(free_block(h, "irs"), "data")

free_indexed ==
  /\ prog = "binsort"
  /\ phase = "built"
  /\ \A t \in Threads : frame[t].pc \in {"idle", "returned"}
  /\ heap' = free_indexed_heap(heap)
  /\ phase' = "destroyed"
  /\ UNCHANGED <<prog, rs, handle, irs, data_n, exhausted, frame>>

\* ------------------------------------------------ Coordinate Scanner: build
mk_naive ==
  /\ prog = "coord"
  /\ phase = "start"
  /\ \E pdata \in malloc(SizeofNaiveData) :
       IF pdata # "block"
       THEN /\ handle' = "NULL"
            /\ phase' = "failed"
            /\ exhausted' = TRUE
            /\ UNCHANGED <<heap, data_n>>
       ELSE /\ heap' = malloc_block(heap, "data")
            /\ data_n' = Len(rs)
            /\ handle' = "data"
            /\ phase' = "built"
            /\ UNCHANGED exhausted
  /\ UNCHANGED <<prog, rs, irs, frame>>

\* ----------------------------------------------- Coordinate Scanner: lookup
\* (r.lon - lon) * (r.lon - lon) + (r.lat - lat) * (r.lat - lat)
dist_sq(r, lon, lat) ==
  (r.lon - lon) * (r.lon - lon) + (r.lat - lat) * (r.lat - lat)

lookup_naive_entry_off_by_one(lon, lat) ==
  IF data_n <= 1
  THEN [IdleFrame EXCEPT !.pc = "returned", !.lon = lon, !.lat = lat,
                         !.result = NULL]
  ELSE [IdleFrame EXCEPT !.pc = "for", !.lon = lon, !.lat = lat,
                         !.closest = 0,
                         !.min_dist_sq = dist_sq(rs[1], lon, lat),
                         !.i = 1, !.reads = {0}]

\* lookup_naive up to the for loop: the n == 0 return, else the running
\* minimum initialised from the first record.
lookup_naive_entry(lon, lat) ==
  IF data_n = 0
  THEN [IdleFrame EXCEPT !.pc = "returned", !.lon = lon, !.lat = lat,
                         !.result = NULL]
  ELSE [IdleFrame EXCEPT !.pc = "for", !.lon = lon, !.lat = lat,
                         !.closest = 0,
                         !.min_dist_sq = dist_sq(rs[1], lon, lat),
                         !.i = 1, !.reads = {0}]

lookup_naive_iter_greater(f) ==
  IF f.i < data_n
  THEN LET d == dist_sq(rs[f.i + 1], f.lon, f.lat)
       IN IF d > f.min_dist_sq
          THEN [f EXCEPT !.min_dist_sq = d, !.closest = f.i,
                         !.i = @ + 1, !.reads = @ \cup {f.i}]
          ELSE [f EXCEPT !.i = @ + 1, !.reads = @ \cup {f.i}]
  ELSE [f EXCEPT !.pc = "returned", !.result = f.closest]

lookup_naive_iter_or_equal(f) ==
  IF f.i < data_n
  THEN LET d == dist_sq(rs[f.i + 1], f.lon, f.lat)
       IN IF d <= f.min_dist_sq
          THEN [f EXCEPT !.min_dist_sq = d, !.closest = f.i,
                         !.i = @ + 1, !.reads = @ \cup {f.i}]
          ELSE [f EXCEPT !.i = @ + 1, !.reads = @ \cup {f.i}]
  ELSE [f EXCEPT !.pc = "returned", !.result = f.closest]

\* Loop test i <= n: the last pass reads rs[n], one past the end; what that
\* read yields is arbitrary, here a record at distance 0.
lookup_naive_iter_inclusive(f) ==
  IF f.i <= data_n
  THEN LET d == IF f.i + 1 \in DOMAIN rs
                THEN dist_sq(rs[f.i + 1], f.lon, f.lat)
                ELSE 0
       IN IF d < f.min_dist_sq
          THEN [f EXCEPT !.min_dist_sq = d, !.closest = f.i,
                         !.i = @ + 1, !.reads = @ \cup {f.i}]
          ELSE [f EXCEPT !.i = @ + 1, !.reads = @ \cup {f.i}]
  ELSE [f EXCEPT !.pc = "returned", !.result = f.closest]

\* One pass through the for loop of lookup_naive: the test i < n and, when
\* it holds, the body and i++; when it fails, the return closest.
lookup_naive_iter(f) ==
  IF f.i < data_n
  THEN LET d == dist_sq(rs[f.i + 1], f.lon, f.lat)
       IN IF d < f.min_dist_sq
          THEN [f EXCEPT !.min_dist_sq = d, !.closest = f.i,
                         !.i = @ + 1, !.reads = @ \cup {f.i}]
          ELSE [f EXCEPT !.i = @ + 1, !.reads = @ \cup {f.i}]
  ELSE [f EXCEPT !.pc = "returned", !.result = f.closest]

lookup_naive_call(t) ==
  /\ prog \in {"coord", "shared"}
  /\ phase = "built"
  /\ frame[t].pc \in {"idle", "returned"}
  /\ \E lon \in Coords, lat \in Coords :
       frame' = [frame EXCEPT ![t] = lookup_naive_entry(lon, lat)]
  /\ UNCHANGED <<prog, rs, heap, handle, irs, data_n, phase, exhausted>>

lookup_naive_step(t) ==
  /\ prog \in {"coord", "shared"}
  /\ frame[t].pc = "for"
  /\ frame' = [frame EXCEPT ![t] = lookup_naive_iter(frame[t])]
  /\ UNCHANGED <<prog, rs, heap, handle, irs, data_n, phase, exhausted>>

\* ---------------------------------------------- Coordinate Scanner: destroy
free_naive_heap(h) == free_block(h, "data")

free_naive ==
  /\ prog = "coord"
  /\ phase = "built"
  /\ \A t \in Threads : frame[t].pc \in {"idle", "returned"}
  /\ heap' = free_naive_heap(heap)
  /\ phase' = "destroyed"
  /\ UNCHANGED <<prog, rs, handle, irs, data_n, exhausted, frame>>

\* ------------------------------------------------------- Linear Scanner
\* First match in store order, NULL when the store is empty or exhausted.
lookup_linear(records, needle) ==
  IF \E i \in 1..Len(records) : records[i].osm_id = needle
  THEN (CHOOSE i \in 1..Len(records) :
          /\ records[i].osm_id = needle
          /\ \A j \in 1..(i - 1) : records[j].osm_id # needle) - 1
  ELSE NULL

\* --------------------------------------------------------- specification
InitFrame == [t \in Threads |-> IdleFrame]

InitHeap ==
  [b \in Blocks |-> IF b = "records" THEN [st |-> "live", frees |-> 0]
                    ELSE [st |-> "unallocated", frees |-> 0]]

IdStores ==
  UNION {[1..n -> [osm_id : Ids, lon : {0}, lat : {0}]] : n \in 0..MaxN}

CoordStores ==
  UNION {{[i \in 1..n |-> [osm_id |-> i, lon |-> c[i][1], lat |-> c[i][2]]] :
            c \in [1..n -> Coords \X Coords]} : n \in 0..MaxN}

\* The store is complete and read-only before any index is built.  The
\* Sorted Index reads only osm_id and the Coordinate Scanner only lon and
\* lat, so each program's stores range over the fields its component reads.
Init ==
  /\ prog \in {"binsort", "coord"}
  /\ rs \in IF prog = "binsort" THEN IdStores ELSE CoordStores
  /\ heap = InitHeap
  /\ handle = "NULL"
  /\ irs = <<>>
  /\ data_n = 0
  /\ phase = "start"
  /\ exhausted = FALSE
  /\ frame = InitFrame

Next ==
  \/ mk_indexed
  \/ \E t \in Threads : lookup_indexed_call(t)
  \/ \E t \in Threads : lookup_indexed_step(t)
  \/ free_indexed
  \/ mk_naive
  \/ \E t \in Threads : lookup_naive_call(t)
  \/ \E t \in Threads : lookup_naive_step(t)
  \/ free_naive

Spec == Init /\ [][Next]_vars

\* The Sorted Index program alone.  A call of lookup_indexed, once made,
\* runs on: the program is single-threaded and synchronous, with nothing
\* that could suspend a loop pass, hence weak fairness of the loop step.
InitIndexed == Init /\ prog = "binsort"

NextIndexed ==
  \/ mk_indexed
  \/ \E t \in Threads : lookup_indexed_call(t)
  \/ \E t \in Threads : lookup_indexed_step(t)
  \/ free_indexed

SpecIndexedFair ==
  /\ InitIndexed
  /\ [][NextIndexed]_vars
  /\ \A t \in Threads : WF_vars(lookup_indexed_step(t))

\* A client that has built a Sorted Index and a Coordinate Scanner over one
\* store and runs lookups on them from two threads, with no build or destroy
\* alongside.  The state starts after both builds have succeeded; the block
\* "data" stands for the handles.  Stores vary in osm_id or in lon.
MaxSharedN == 2    \* longest store of the sharing client

SharedThreads == {1, 2}

SharedStores ==
  {s \in IdStores \cup CoordStores :
     Len(s) <= MaxSharedN /\ \A i \in 1..Len(s) : s[i].lat = 0}

\* lookup_indexed run from call to return with nothing else running.
RECURSIVE run_indexed(_)
run_indexed(f) ==
  IF f.pc = "returned" THEN f ELSE run_indexed(lookup_indexed_iter(f))

lookup_indexed_alone(needle) == run_indexed(lookup_indexed_entry(needle)).result

\* lookup_naive run from call to return with nothing else running.
RECURSIVE run_naive(_)
run_naive(f) ==
  IF f.pc = "returned" THEN f ELSE run_naive(lookup_naive_iter(f))

lookup_naive_alone(lon, lat) == run_naive(lookup_naive_entry(lon, lat)).result

InitShared ==
  /\ prog = "shared"
  /\ rs \in SharedStores
  /\ heap = malloc_block(malloc_block(InitHeap, "data"), "irs")
  /\ handle = "data"
  /\ irs \in qsort(build_index(rs))
  /\ data_n = Len(rs)
  /\ phase = "built"
  /\ exhausted = FALSE
  /\ frame = [t \in SharedThreads |-> IdleFrame]

NextShared ==
  \/ \E t \in SharedThreads : lookup_indexed_call(t)
  \/ \E t \in SharedThreads : lookup_indexed_step(t)
  \/ \E t \in SharedThreads : lookup_naive_call(t)
  \/ \E t \in SharedThreads : lookup_naive_step(t)

SpecShared == InitShared /\ [][NextShared]_vars

\* ================================================================= claims
Returned(t) == frame[t].pc = "returned"

KeyPresent(k) == \E i \in 1..Len(rs) : rs[i].osm_id = k

HasDuplicateIds == \E i, j \in 1..Len(rs) : i # j /\ rs[i].osm_id = rs[j].osm_id

StoreOutOfOrder == \E i, j \in 1..Len(rs) : i < j /\ rs[i].osm_id > rs[j].osm_id

\* C1: Sorted Index, present key.  Whenever lookup_indexed has returned for
\* a needle that occurs in the store (any order, duplicates allowed), the
\* result is a non-null record reference whose osm_id equals the needle.
C1_PresentKeyFound ==
  \A t \in Threads :
    (prog = "binsort" /\ Returned(t) /\ KeyPresent(frame[t].needle))
      => /\ frame[t].result # NULL
         /\ frame[t].result \in 0..(Len(rs) - 1)
         /\ rs[frame[t].result + 1].osm_id = frame[t].needle

\* A lookup of a present key has returned on a store that is out of order
\* and holds a duplicate identifier.
C1_Witness ==
  \E t \in Threads :
    /\ prog = "binsort" /\ Returned(t) /\ KeyPresent(frame[t].needle)
    /\ HasDuplicateIds /\ StoreOutOfOrder
    /\ frame[t].result # NULL

\* C2: Sorted Index, absent key.  Whenever lookup_indexed has returned for a
\* needle that does not occur in the store (the empty store included), the
\* result is NULL.
C2_AbsentKeyNotFound ==
  \A t \in Threads :
    (prog = "binsort" /\ Returned(t) /\ ~KeyPresent(frame[t].needle))
      => frame[t].result = NULL

\* A lookup of an absent key lying strictly between two stored keys has
\* returned after probing the entry array.
C2_Witness ==
  \E t \in Threads :
    /\ prog = "binsort" /\ Returned(t) /\ ~KeyPresent(frame[t].needle)
    /\ \E i, j \in 1..Len(rs) :
         rs[i].osm_id < frame[t].needle /\ frame[t].needle < rs[j].osm_id
    /\ frame[t].reads # {}
    /\ frame[t].result = NULL

\* C3: cross-implementation equivalence.  On a store without duplicate
\* identifiers, a returned lookup_indexed and the Linear Scanner's
\* first-match scan of the store agree: both not found, or both a record
\* with the same identifier.
C3_AgreesWithLinearScan ==
  \A t \in Threads :
    (prog = "binsort" /\ Returned(t) /\ ~HasDuplicateIds)
      => LET lin == lookup_linear(rs, frame[t].needle)
             res == frame[t].result
         IN \/ lin = NULL /\ res = NULL
            \/ /\ lin # NULL /\ res # NULL
               /\ rs[res + 1].osm_id = rs[lin + 1].osm_id

\* A found lookup has returned on a duplicate-free store of at least two
\* records that is not in ascending order, so the sort moved the record.
C3_Witness ==
  \E t \in Threads :
    /\ prog = "binsort" /\ Returned(t) /\ ~HasDuplicateIds
    /\ StoreOutOfOrder
    /\ lookup_linear(rs, frame[t].needle) # NULL
    /\ frame[t].result = lookup_linear(rs, frame[t].needle)

\* C4: Sorted Index invariant.  From the return of mk_indexed until
\* free_indexed, in every state (before, during and after any lookup), the
\* entry array irs[0..n-1] is non-decreasing in osm_id.
C4_EntriesSorted ==
  (prog = "binsort" /\ phase = "built")
    => /\ Len(irs) = data_n
       /\ \A i, j \in 1..Len(irs) : i < j => irs[i].osm_id <= irs[j].osm_id

\* A lookup has returned on an index built from an out-of-order store.
C4_Witness ==
  /\ prog = "binsort" /\ phase = "built"
  /\ StoreOutOfOrder
  /\ Len(irs) >= 2
  /\ \E t \in Threads : Returned(t)

Dist(t, j) == dist_sq(rs[j], frame[t].lon, frame[t].lat)

\* Positions (1-based) of the records at minimal squared distance from the
\* query point of thread t.
Nearest(t) ==
  {j \in 1..Len(rs) : \A k \in 1..Len(rs) : Dist(t, j) <= Dist(t, k)}

\* C5: Coordinate Scanner nearest neighbour.  Whenever lookup_naive has
\* returned on a non-empty store, the result is a record of the store whose
\* squared planar distance to the query point is less than or equal to that
\* of every record of the store.
C5_NearestReturned ==
  \A t \in Threads :
    (prog = "coord" /\ Returned(t) /\ Len(rs) >= 1)
      => /\ frame[t].result \in 0..(Len(rs) - 1)
         /\ \A j \in 1..Len(rs) : Dist(t, frame[t].result + 1) <= Dist(t, j)

\* A lookup has returned a record other than the first one, strictly nearer
\* than the first, on a store of at least three records.
C5_Witness ==
  \E t \in Threads :
    /\ prog = "coord" /\ Returned(t) /\ Len(rs) >= 3
    /\ frame[t].result \in 1..(Len(rs) - 1)
    /\ Dist(t, frame[t].result + 1) < Dist(t, 1)

\* C6: Coordinate Scanner tie-break.  Whenever lookup_naive has returned and
\* several records are at the same minimal squared distance from the query
\* point, the result is the one of them with the smallest index in store
\* order.
C6_EarliestOfTies ==
  \A t \in Threads :
    (prog = "coord" /\ Returned(t) /\ Cardinality(Nearest(t)) >= 2)
      => /\ frame[t].result + 1 \in Nearest(t)
         /\ \A j \in Nearest(t) : frame[t].result + 1 <= j

\* A lookup has returned where two records at different coordinates tie at
\* the minimal distance and the first record of the store is farther away,
\* so the running minimum was replaced once and then kept on the tie.
C6_Witness ==
  \E t \in Threads :
    /\ prog = "coord" /\ Returned(t)
    /\ 1 \notin Nearest(t)
    /\ \E j, k \in Nearest(t) :
         /\ j < k
         /\ <<rs[j].lon, rs[j].lat>> # <<rs[k].lon, rs[k].lat>>
         /\ frame[t].result = j - 1

\* C7: boundary n = 0.  For an empty store, a build that did not run out of
\* memory returns a non-null handle (mk_indexed and mk_naive alike), and
\* every lookup on it reports not found without reading an entry or record.
C7_EmptyStoreBuildsAndFindsNothing ==
  (Len(rs) = 0 /\ phase # "start" /\ ~exhausted)
    => /\ handle # "NULL"
       /\ \A t \in Threads :
            Returned(t) => (frame[t].result = NULL /\ frame[t].reads = {})

\* C8: allocation failure in the Sorted Index build.  When mk_indexed has
\* failed, the handle it returned is NULL and neither block of the call is
\* live, none having been freed more than once; a non-null handle is only
\* ever returned with both of its blocks live and all n entries in place.
C8_FailedBuildReleasesAll ==
  /\ (prog = "binsort" /\ phase = "failed")
       => /\ handle = "NULL"
          /\ \A b \in {"data", "irs"} :
               heap[b].st # "live" /\ heap[b].frees <= 1
  /\ (prog = "binsort" /\ phase = "built")
       => /\ handle = "data"
          /\ heap["data"] = [st |-> "live", frees |-> 0]
          /\ heap["irs"] = [st |-> "live", frees |-> 0]
          /\ Len(irs) = Len(rs)

\* mk_indexed has failed on its second allocation, for lack of memory, after
\* the handle had been allocated: the handle block was released.
C8_Witness ==
  /\ prog = "binsort" /\ phase = "failed" /\ exhausted
  /\ Len(rs) >= 1
  /\ heap["data"] = [st |-> "freed", frees |-> 1]
  /\ handle = "NULL"

\* C9: Coordinate Scanner not-found.  Whenever lookup_naive has returned,
\* the result is NULL exactly if the store is empty; on a store of n >= 1
\* records it is a reference to one of the n records.
C9_NullIffEmpty ==
  \A t \in Threads :
    (prog = "coord" /\ Returned(t))
      => /\ (frame[t].result = NULL) <=> (Len(rs) = 0)
         /\ Len(rs) >= 1 => frame[t].result \in 0..(Len(rs) - 1)

\* A lookup has returned the sole record of a one-record store for a query
\* point away from it.
C9_Witness ==
  \E t \in Threads :
    /\ prog = "coord" /\ Returned(t) /\ Len(rs) = 1
    /\ frame[t].result = 0
    /\ Dist(t, 1) > 0

\* C10: memory ownership over build / lookup* / destroy.  Once the index has
\* been destroyed, every block its build allocated has been freed exactly
\* once (the handle; for the Sorted Index also the entry array), no block of
\* the build is live, and the Record Store's storage is live and was never
\* freed by the index.
C10_BuildBlocksFreedOnce ==
  phase = "destroyed"
    => /\ heap["data"] = [st |-> "freed", frees |-> 1]
       /\ prog = "binsort" => heap["irs"] = [st |-> "freed", frees |-> 1]
       /\ prog = "coord" => heap["irs"] = [st |-> "unallocated", frees |-> 0]
       /\ heap["records"] = [st |-> "live", frees |-> 0]

\* A Sorted Index over a non-empty store has been destroyed after a lookup
\* that found a record.
C10_Witness ==
  /\ phase = "destroyed" /\ prog = "binsort" /\ Len(rs) >= 1
  /\ \E t \in Threads : Returned(t) /\ frame[t].result # NULL

\* C11: lookups are pure reads.  Every step of lookup_indexed or
\* lookup_naive (the call, each loop pass, the return, found or not) leaves
\* the record store, the handle's length n and every entry of the entry
\* array unchanged.
C11_LookupsArePureReads ==
  [][\A t \in Threads :
       frame'[t] # frame[t]
         => (rs' = rs /\ data_n' = data_n /\ irs' = irs)]_vars

\* A lookup that found a record has returned, with the entry array as the
\* build left it: some ascending arrangement of one entry per record.
C11_Witness ==
  \E t \in Threads :
    /\ prog = "binsort" /\ phase = "built" /\ Returned(t)
    /\ frame[t].result # NULL
    /\ Len(rs) >= 2
    /\ irs \in qsort(build_index(rs))
    /\ data_n = Len(rs)

Width(f) == f.right - f.left

\* C12: binary search termination.  For every n >= 0 and every needle, each
\* pass of the loop of lookup_indexed that does not return strictly
\* decreases right - left, and every call that has entered the loop
\* eventually returns (with a matching entry, or NULL once left > right).
C12_BinarySearchTerminates ==
  /\ [][\A t \in Threads :
          (frame[t].pc = "while" /\ frame'[t].pc = "while"
             /\ frame'[t] # frame[t])
            => Width(frame'[t]) < Width(frame[t])]_vars
  /\ \A t \in Threads :
       (frame[t].pc = "while") ~> (frame[t].pc = "returned")

\* A search has ended not found with left > right after probing at least
\* two entries.
C12_Witness ==
  \E t \in Threads :
    /\ prog = "binsort" /\ Returned(t)
    /\ frame[t].result = NULL
    /\ frame[t].left > frame[t].right
    /\ Cardinality(frame[t].reads) >= 2

\* C13: array accesses stay in bounds.  Every index at which lookup_indexed
\* has read the entry array and every index at which lookup_naive has read
\* the record array lies in 0..n-1 (so nothing is read when n = 0), and the
\* build loop of mk_indexed has filled exactly the positions 0..n-1 of the
\* entry array, from the records at the indices 0..n-1.
C13_AccessesInBounds ==
  /\ \A t \in Threads : frame[t].reads \subseteq 0..(Len(rs) - 1)
  /\ (prog = "binsort" /\ phase = "built")
       => /\ DOMAIN irs = 1..Len(rs)
          /\ \A i \in DOMAIN irs : irs[i].record \in 0..(Len(rs) - 1)

\* A binary search over three or more entries has read the last one.
C13_Witness ==
  \E t \in Threads :
    /\ prog = "binsort" /\ Returned(t)
    /\ Len(rs) >= 3
    /\ (Len(rs) - 1) \in frame[t].reads

\* C14: binary search loop invariant.  At the start of every iteration of
\* lookup_indexed, every entry below left has osm_id strictly less than the
\* needle and every entry above right has osm_id strictly greater; hence a
\* needle that occurs in the array has an occurrence within [left, right].
C14_SearchRangeInvariant ==
  \A t \in Threads :
    (prog = "binsort" /\ frame[t].pc = "while")
      => LET f == frame[t]
             Pos == 0..(Len(irs) - 1)
         IN /\ \A p \in Pos : p < f.left => irs[p + 1].osm_id < f.needle
            /\ \A p \in Pos : p > f.right => irs[p + 1].osm_id > f.needle
            /\ (\E p \in Pos : irs[p + 1].osm_id = f.needle)
                 => \E p \in Pos : /\ f.left <= p /\ p <= f.right
                                   /\ irs[p + 1].osm_id = f.needle

\* The loop is about to test an emptied range after both bounds have moved:
\* entries were discarded on the left and on the right.
C14_Witness ==
  \E t \in Threads :
    /\ prog = "binsort" /\ frame[t].pc = "while"
    /\ frame[t].left > 0
    /\ frame[t].right < Len(irs) - 1
    /\ Cardinality(frame[t].reads) >= 2

\* C15: midpoint and bound arithmetic never overflows int.  For every n
\* with 0 <= n <= INT_MAX at the modelled width, no computation of
\* lookup_indexed (right = n - 1, right - left, mid = left + (right - left)
\* / 2, left = mid + 1, right = mid - 1) has an exact result outside the
\* range of int, and left, right and every mid stay inside [-1, n].
C15_NoIntOverflow ==
  \A t \in Threads :
    prog = "binsort"
      => /\ ~frame[t].ovf
         /\ frame[t].left \in -1..Len(rs)
         /\ frame[t].right \in -1..Len(rs)
         /\ frame[t].reads \subseteq -1..Len(rs)

\* On a store of INT_MAX records a search for a needle above every key has
\* returned with left = mid + 1 = INT_MAX, the largest value computed.
C15_Witness ==
  \E t \in Threads :
    /\ prog = "binsort" /\ Returned(t)
    /\ Len(rs) = INT_MAX
    /\ frame[t].left = INT_MAX
    /\ frame[t].result = NULL

\* C16: entry/record pairing after build.  In every handle returned by
\* mk_indexed each entry's osm_id equals the osm_id of the record its
\* reference points to, and the references form a permutation of the n
\* records of the store: n entries, every record referenced exactly once.
C16_EntriesPairedWithRecords ==
  (prog = "binsort" /\ phase = "built")
    => /\ Len(irs) = Len(rs)
       /\ \A i \in DOMAIN irs :
            /\ irs[i].record \in 0..(Len(rs) - 1)
            /\ irs[i].osm_id = rs[irs[i].record + 1].osm_id
       /\ \A r \in 0..(Len(rs) - 1) :
            Cardinality({i \in DOMAIN irs : irs[i].record = r}) = 1

\* An index over an out-of-order store has been built: the sort moved the
\* first record's entry away from the first position.
C16_Witness ==
  /\ prog = "binsort" /\ phase = "built"
  /\ Len(rs) >= 3
  /\ StoreOutOfOrder
  /\ irs[1].record # 0

\* C17: duplicate identifiers in the Sorted Index.  Whenever lookup_indexed
\* has returned a record, it is the record of the one matching entry the
\* search probed: every entry probed before it did not match.  (With an
\* identifier stored more than once this entry need not be the first
\* occurrence in store order: see the witness.)
C17_ReturnsFirstProbedMatch ==
  \A t \in Threads :
    (prog = "binsort" /\ Returned(t) /\ frame[t].result # NULL)
      => \E m \in frame[t].reads :
           /\ irs[m + 1].osm_id = frame[t].needle
           /\ irs[m + 1].record = frame[t].result
           /\ \A r \in frame[t].reads \ {m} :
                irs[r + 1].osm_id # frame[t].needle

\* A store holds the needle more than once, the sort has left the entries
\* in store order, and the lookup has returned a record other than the one
\* a first-match linear scan returns.
C17_Witness ==
  \E t \in Threads :
    /\ prog = "binsort" /\ Returned(t)
    /\ Cardinality({i \in 1..Len(rs) : rs[i].osm_id = frame[t].needle}) >= 2
    /\ irs = build_index(rs)
    /\ frame[t].result # NULL
    /\ frame[t].result # lookup_linear(rs, frame[t].needle)

\* C18: read-only sharing without synchronisation.  With lookups of both
\* kinds running on two threads in any interleaving of their steps and no
\* build or destroy alongside, every lookup returns exactly the result it
\* returns when run alone, and no step changes the store, the entry array,
\* the stored length or the heap.
C18_InterleavedLookupsAsAlone ==
  [][/\ UNCHANGED <<rs, irs, data_n, heap, handle>>
     /\ \A t \in SharedThreads :
          /\ (frame[t].pc = "while" /\ frame'[t].pc = "returned")
               => frame'[t].result = lookup_indexed_alone(frame[t].needle)
          /\ (frame[t].pc = "for" /\ frame'[t].pc = "returned")
               => frame'[t].result
                    = lookup_naive_alone(frame[t].lon, frame[t].lat)
          /\ (frame[t].pc \in {"idle", "returned"}
                /\ frame'[t].pc = "returned" /\ frame'[t] # frame[t])
               => frame'[t].result
                    = lookup_naive_alone(frame'[t].lon, frame'[t].lat)
    ]_vars

\* A lookup_indexed that has probed an entry and a lookup_naive that has
\* scanned two records are both in progress, on different threads.
C18_Witness ==
  \E t, u \in SharedThreads :
    /\ prog = "shared" /\ t # u
    /\ frame[t].pc = "while" /\ frame[t].reads # {}
    /\ frame[u].pc = "for" /\ frame[u].i >= 2
====
